---- MODULE Spec2Model ----
(***************************************************************************)
(* Overload-protection layer of gospital: the per-dependency circuit       *)
(* breakers of MySQLClient and DynamoDBClient (github.com/sony/gobreaker   *)
(* configured by NewMySQLClient / NewDynamoDBClient) and the CPU resource  *)
(* monitor (CPUCircuitBreaker).                                            *)
(***************************************************************************)
EXTENDS Integers, Sequences, FiniteSets, Bags, TLC

VARIABLES
    now,        \* wall clock, in seconds
    cb,         \* per breaker: state, generation, counts, expiry
    inflight,   \* per breaker: bag of the generations of the calls whose wrapped operation is running
    rows,       \* number of CBRow values returned by QueryRowContext and not yet scanned
    gauge,      \* per breaker: value of the Prometheus gauge <dep>_circuit_breaker_state
    openedAt,   \* per breaker: while Open, the time the breaker entered Open (else ZeroTime)
    ev,         \* the latest step taken on a breaker (cleared when the clock advances)
    traffic,    \* the dependencies the workload of this run calls
    mon,        \* the CPUCircuitBreaker struct
    loop,       \* the monitorCPU goroutine: "none" or "running"
    cpuMetrics, \* the gauges cpu_circuit_breaker_state and cpu_usage_percent
    tick,       \* the latest iteration of the monitorCPU loop
    startup,    \* what NewCPUCircuitBreaker found and logged
    req,        \* the request of the /api group being served
    sem,        \* per bulkhead: number of elements in the semaphore channel
    bh,         \* per request of the bulkhead workload: its class and position
    bev,        \* the latest step taken on a bulkhead
    answer,     \* the HTTP response of the handler whose repository call was just refused
    ping,       \* the PingContext of the health check: "none", or "pinging" with its generation
    httpRequestsInFlight    \* the gauge http_requests_in_flight

brkVars == <<now, cb, inflight, rows, gauge, openedAt, ev, traffic, answer, ping>>

monVars == <<mon, loop, cpuMetrics, tick, startup>>

reqVars == <<req, httpRequestsInFlight>>

bhVars == <<sem, bh, bev>>

vars == <<now, cb, inflight, rows, gauge, openedAt, ev, traffic, mon, loop, cpuMetrics, tick,
          startup, req, sem, bh, bev, answer, ping, httpRequestsInFlight>>

----------------------------------------------------------------------------
(* Bounds of the model *)

MaxTime == 50          \* the clock stops here
TimeStep == 10         \* granularity of the clock
MaxCount == 4          \* calls admitted per generation
MaxInFlight == 3       \* wrapped operations running at once, per breaker
MaxRows == 1           \* CBRow values awaiting Scan
MaxCountBoth == 3      \* calls admitted per generation when both clients are driven
MaxLeaked == 2         \* value of http_requests_in_flight at which no further request is taken

----------------------------------------------------------------------------
(* Settings of both breakers *)

MaxRequests == 3
Interval == 10
Timeout == 30
MinRequests == 3
FailureRatioPercent == 60

Breakers == {"MySQL", "DynamoDB"}

StateClosed == "closed"
StateHalfOpen == "half-open"
StateOpen == "open"

ErrOpenState == "circuit breaker is open"
ErrTooManyRequests == "too many requests"

\* The zero time.Time
ZeroTime == -1

MySQLOps == {"QueryContext", "ExecContext", "PingContext", "Scan"}

DynamoDBOps == {"PutItem", "GetItem", "Query", "UpdateItem", "DeleteItem",
                "Scan", "BatchGetItem", "BatchWriteItem"}

OpsOf(b) == IF b = "MySQL" THEN MySQLOps ELSE DynamoDBOps

Outcomes == {"ok", "err"}

----------------------------------------------------------------------------
(* gobreaker.Counts *)

ZeroCounts ==
    [Requests |-> 0, TotalSuccesses |-> 0, TotalFailures |-> 0,
     ConsecutiveSuccesses |-> 0, ConsecutiveFailures |-> 0]

CountsOnRequest(c) == [c EXCEPT !.Requests = @ + 1]

CountsOnSuccess(c) ==
    [c EXCEPT !.TotalSuccesses = @ + 1,
              !.ConsecutiveSuccesses = @ + 1,
              !.ConsecutiveFailures = 0]

CountsOnFailure(c) ==
    [c EXCEPT !.TotalFailures = @ + 1,
              !.ConsecutiveFailures = @ + 1,
              !.ConsecutiveSuccesses = 0]

\* ReadyToTrip: float64(TotalFailures)/float64(Requests) >= 0.6 with
\* Requests >= 3; 0/0 is NaN, and NaN >= 0.6 is false.
ReadyToTrip(counts) ==
    /\ counts.Requests >= MinRequests
    /\ counts.Requests > 0
    /\ 100 * counts.TotalFailures >= FailureRatioPercent * counts.Requests

\* metric value of a state name (0 = closed, 1 = half-open, 2 = open)
CircuitBreakerStateToInt(stateName) ==
    CASE stateName = "closed" -> 0
      [] stateName = "half-open" -> 1
      [] stateName = "open" -> 2
      [] OTHER -> 0

\* OnStateChange of breaker b: the MySQL callback sets the gauge, the
\* DynamoDB callback has an empty body.
OnStateChange(b, g, from, to) ==
    IF b = "MySQL" THEN CircuitBreakerStateToInt(to) ELSE g

----------------------------------------------------------------------------
(* gobreaker.CircuitBreaker: a machine m = [c, calls] is the breaker record *)
(* c together with the OnStateChange calls made so far in the current step *)

\* mutant: a time is also before itself
BeforeOrAt(t, u) == t <= u

\* time.Time.Before
Before(t, u) == t < u

\* mutant: an Open breaker waits for Interval instead of Timeout
ToNewGenerationOpenInterval(m, t) ==
    [m EXCEPT !.c.generation = @ + 1,
              !.c.counts = ZeroCounts,
              !.c.expiry = CASE m.c.state = StateClosed ->
                                    IF Interval = 0 THEN ZeroTime ELSE t + Interval
                             [] m.c.state = StateOpen -> t + Interval
                             [] OTHER -> ZeroTime]

ToNewGeneration(m, t) ==
    [m EXCEPT !.c.generation = @ + 1,
              !.c.counts = ZeroCounts,
              !.c.expiry = CASE m.c.state = StateClosed ->
                                    IF Interval = 0 THEN ZeroTime ELSE t + Interval
                             [] m.c.state = StateOpen -> t + Timeout
                             [] OTHER -> ZeroTime]

\* mutant: entering Closed starts no new generation, so the counts survive
SetStateKeepsCountsOnClose(m, state, t) ==
    IF m.c.state = state
    THEN m
    ELSE LET prev == m.c.state
             m1 == IF state = StateClosed
                   THEN [m EXCEPT !.c.state = state]
                   ELSE ToNewGeneration([m EXCEPT !.c.state = state], t)
         IN  [m1 EXCEPT !.calls = Append(@, [from |-> prev, to |-> state])]

SetState(m, state, t) ==
    IF m.c.state = state
    THEN m
    ELSE LET prev == m.c.state
             m1 == ToNewGeneration([m EXCEPT !.c.state = state], t)
         IN  [m1 EXCEPT !.calls = Append(@, [from |-> prev, to |-> state])]

\* mutant: an expired Open breaker becomes HalfOpen without the callback
CurrentStateSilentHalfOpen(m, t) ==
    CASE m.c.state = StateClosed ->
            IF m.c.expiry # ZeroTime /\ Before(m.c.expiry, t)
            THEN ToNewGeneration(m, t)
            ELSE m
      [] m.c.state = StateOpen ->
            IF Before(m.c.expiry, t)
            THEN ToNewGeneration([m EXCEPT !.c.state = StateHalfOpen], t)
            ELSE m
      [] OTHER -> m

CurrentState(m, t) ==
    CASE m.c.state = StateClosed ->
            IF m.c.expiry # ZeroTime /\ Before(m.c.expiry, t)
            THEN ToNewGeneration(m, t)
            ELSE m
      [] m.c.state = StateOpen ->
            IF Before(m.c.expiry, t) THEN SetState(m, StateHalfOpen, t) ELSE m
      [] OTHER -> m

\* mutant: HalfOpen closes one success early
OnSuccessEarlyClose(m, state, t) ==
    CASE state = StateClosed -> [m EXCEPT !.c.counts = CountsOnSuccess(@)]
      [] state = StateHalfOpen ->
            LET m1 == [m EXCEPT !.c.counts = CountsOnSuccess(@)]
            IN  IF m1.c.counts.ConsecutiveSuccesses >= MaxRequests - 1
                THEN SetState(m1, StateClosed, t)
                ELSE m1
      [] OTHER -> m

OnSuccess(m, state, t) ==
    CASE state = StateClosed -> [m EXCEPT !.c.counts = CountsOnSuccess(@)]
      [] state = StateHalfOpen ->
            LET m1 == [m EXCEPT !.c.counts = CountsOnSuccess(@)]
            IN  IF m1.c.counts.ConsecutiveSuccesses >= MaxRequests
                THEN SetState(m1, StateClosed, t)
                ELSE m1
      [] OTHER -> m

\* mutant: a failed probe is only counted
OnFailureCountsProbe(m, state, t) ==
    CASE state = StateClosed ->
            LET m1 == [m EXCEPT !.c.counts = CountsOnFailure(@)]
            IN  IF ReadyToTrip(m1.c.counts) THEN SetState(m1, StateOpen, t) ELSE m1
      [] state = StateHalfOpen -> [m EXCEPT !.c.counts = CountsOnFailure(@)]
      [] OTHER -> m

OnFailure(m, state, t) ==
    CASE state = StateClosed ->
            LET m1 == [m EXCEPT !.c.counts = CountsOnFailure(@)]
            IN  IF ReadyToTrip(m1.c.counts) THEN SetState(m1, StateOpen, t) ELSE m1
      [] state = StateHalfOpen -> SetState(m, StateOpen, t)
      [] OTHER -> m

\* mutant: a HalfOpen breaker admits every call
BeforeRequestNoProbeCap(m, t) ==
    LET m1 == CurrentState(m, t)
    IN  IF m1.c.state = StateOpen
        THEN [m |-> m1, err |-> ErrOpenState, generation |-> m1.c.generation]
        ELSE [m |-> [m1 EXCEPT !.c.counts = CountsOnRequest(@)],
              err |-> "", generation |-> m1.c.generation]

\* beforeRequest: [m, err, generation]
BeforeRequest(m, t) ==
    LET m1 == CurrentState(m, t)
    IN  IF m1.c.state = StateOpen
        THEN [m |-> m1, err |-> ErrOpenState, generation |-> m1.c.generation]
        ELSE IF m1.c.state = StateHalfOpen /\ m1.c.counts.Requests >= MaxRequests
        THEN [m |-> m1, err |-> ErrTooManyRequests, generation |-> m1.c.generation]
        ELSE [m |-> [m1 EXCEPT !.c.counts = CountsOnRequest(@)],
              err |-> "", generation |-> m1.c.generation]

\* mutant: the result of a call of an earlier generation is counted too
AfterRequestCountsStale(m, before, success, t) ==
    LET m1 == CurrentState(m, t)
    IN  IF success THEN OnSuccess(m1, m1.c.state, t)
                   ELSE OnFailure(m1, m1.c.state, t)

\* afterRequest
AfterRequest(m, before, success, t) ==
    LET m1 == CurrentState(m, t)
    IN  IF m1.c.generation # before
        THEN m1
        ELSE IF success THEN OnSuccess(m1, m1.c.state, t)
                        ELSE OnFailure(m1, m1.c.state, t)

\* gobreaker.NewCircuitBreaker at time t
NewCircuitBreaker(t) ==
    ToNewGeneration([c |-> [state |-> StateClosed, generation |-> 0,
                            counts |-> ZeroCounts, expiry |-> ZeroTime],
                     calls |-> <<>>], t).c

RECURSIVE ApplyCallbacks(_, _, _)
ApplyCallbacks(b, g, calls) ==
    IF calls = <<>> THEN g
    ELSE ApplyCallbacks(b, OnStateChange(b, g, Head(calls).from, Head(calls).to), Tail(calls))

\* the time of entering Open, as seen by the state-change callbacks
OpenedBy(calls, old, t) ==
    IF calls = <<>> THEN old
    ELSE IF calls[Len(calls)].to = StateOpen THEN t ELSE ZeroTime

----------------------------------------------------------------------------
(* CPUCircuitBreaker: the resource monitor *)

cpuOverloadThreshold == 95
cpuRecoveryThreshold == 85

\* float64 values are kept as exact fractions num/den with den > 0
Rat(n, d) == [num |-> n, den |-> d]
RatAdd(x, y) == Rat(x.num * y.den + y.num * x.den, x.den * y.den)
RatGE(x, k) == x.num >= k * x.den
RatLT(x, k) == x.num < k * x.den
RatEq(x, k) == x.num = k * x.den

\* the cumulative usage counters are unsigned (uint64 TotalUsage) and their
\* difference wraps around; the modulus 2^64 is scaled to 2^10 here
UsageModulus == 1024

\* Limits.CPU of the task metadata, in quarters of a vCPU
LimitValues == {-4, 0, 4, 8}

\* what GET metadataURI/task answers
TaskResponses ==
    {[kind |-> "transport_error"], [kind |-> "status", status |-> 500],
     [kind |-> "unparsable"]}
    \cup {[kind |-> "metadata", limit |-> l] : l \in LimitValues}

\* the environment of the constructor
NoMetadataEnvironment == [uri |-> "", task |-> [kind |-> "transport_error"]]

Environments ==
    {NoMetadataEnvironment}
    \cup {[uri |-> "http://169.254.170.2/v4", task |-> t] : t \in TaskResponses}

\* one value of the /task/stats map: the pointers that are nil, the two
\* timestamps and the two cumulative usage readings
NilStats == {"stats", "cpu_stats", "precpu_stats", "cpu_usage", "precpu_usage"}

StatsEntries ==
    {[nil |-> n, read |-> 200, preread |-> 100, cpu |-> 95, precpu |-> 0] : n \in NilStats}
    \cup {[nil |-> "", read |-> r, preread |-> 100, cpu |-> 95, precpu |-> 0] : r \in {0, 100}}
    \cup {[nil |-> "", read |-> 200, preread |-> 100, cpu |-> c, precpu |-> q] :
              c \in {0, 80, 86, 94, 95}, q \in {0, 20}}

\* the keys of the /task/stats map: the task's container and the pause container
ContainerNames == {"api", "~internal~ecs~pause"}

StatsMaps == UNION {[S -> StatsEntries] : S \in SUBSET ContainerNames}

\* what GET metadataURI/task/stats answers
StatsResponses ==
    {[kind |-> "transport_error"], [kind |-> "status", status |-> 500],
     [kind |-> "unparsable"]}
    \cup {[kind |-> "stats", statsMap |-> f] : f \in StatsMaps}

\* fetchTaskCPULimit: [err, limit]
FetchTaskCPULimit(resp) ==
    IF resp.kind = "transport_error" THEN [err |-> TRUE, limit |-> 0]
    ELSE IF resp.kind = "status" /\ resp.status # 200 THEN [err |-> TRUE, limit |-> 0]
    ELSE IF resp.kind = "unparsable" THEN [err |-> TRUE, limit |-> 0]
    ELSE IF resp.limit <= 0 THEN [err |-> TRUE, limit |-> 0]
    ELSE [err |-> FALSE, limit |-> resp.limit]

\* the no-op monitor returned when there is no metadata endpoint or no limit
DisabledMonitor ==
    [isOpen |-> FALSE, currentCPU |-> Rat(0, 1), overloadThreshold |-> 0,
     recoveryThreshold |-> 0, metadataURI |-> "", taskCPULimit |-> 0]

\* the only log entry of the constructor
LogInitialized == "[CPU Circuit Breaker] Initialized"

\* mutant: a failed limit lookup falls back to one vCPU and monitoring starts
NewCPUCircuitBreakerDefaultLimit(overloadThreshold, recoveryThreshold, env) ==
    IF env.uri = ""
    THEN [cb |-> DisabledMonitor, started |-> FALSE, logs |-> <<>>]
    ELSE LET lim == FetchTaskCPULimit(env.task)
         IN  [cb |-> [isOpen |-> FALSE, currentCPU |-> Rat(0, 1),
                      overloadThreshold |-> overloadThreshold,
                      recoveryThreshold |-> recoveryThreshold,
                      metadataURI |-> env.uri,
                      taskCPULimit |-> IF lim.err THEN 4 ELSE lim.limit],
              started |-> TRUE, logs |-> <<LogInitialized>>]

\* NewCPUCircuitBreaker: the struct returned, whether monitorCPU was started
\* and what was logged
NewCPUCircuitBreaker(overloadThreshold, recoveryThreshold, env) ==
    IF env.uri = ""
    THEN [cb |-> DisabledMonitor, started |-> FALSE, logs |-> <<>>]
    ELSE LET lim == FetchTaskCPULimit(env.task)
         IN  IF lim.err
             THEN [cb |-> DisabledMonitor, started |-> FALSE, logs |-> <<>>]
             ELSE [cb |-> [isOpen |-> FALSE, currentCPU |-> Rat(0, 1),
                           overloadThreshold |-> overloadThreshold,
                           recoveryThreshold |-> recoveryThreshold,
                           metadataURI |-> env.uri, taskCPULimit |-> lim.limit],
                   started |-> TRUE, logs |-> <<LogInitialized>>]

\* the entries of the stats map that pass the nil checks and have timeDelta > 0
ValidStats(e) == e.nil = "" /\ e.read - e.preread > 0

\* vCPUs of one entry: uint64 subtraction, then float64 division
EntryVCPUs(e) == Rat((e.cpu - e.precpu) % UsageModulus, e.read - e.preread)

RECURSIVE TotalVCPUs(_, _)
TotalVCPUs(f, S) ==
    IF S = {} THEN Rat(0, 1)
    ELSE LET k == CHOOSE x \in S : TRUE
             rest == TotalVCPUs(f, S \ {k})
         IN  IF ValidStats(f[k]) THEN RatAdd(rest, EntryVCPUs(f[k])) ELSE rest

\* mutant: the status code of the stats response is not checked
GetContainerCPUAnyStatus(m, resp) ==
    IF resp.kind = "transport_error" THEN [err |-> TRUE, cpu |-> Rat(0, 1), valid |-> FALSE]
    ELSE IF resp.kind = "status" THEN [err |-> FALSE, cpu |-> Rat(0, 1), valid |-> FALSE]
    ELSE IF resp.kind = "unparsable" THEN [err |-> TRUE, cpu |-> Rat(0, 1), valid |-> FALSE]
    ELSE LET f == resp.statsMap
             validStatsFound == \E k \in DOMAIN f : ValidStats(f[k])
             total == TotalVCPUs(f, DOMAIN f)
             cpuPercent == Rat(total.num * 400, total.den * m.taskCPULimit)
         IN  IF ~validStatsFound
             THEN [err |-> FALSE, cpu |-> Rat(0, 1), valid |-> FALSE]
             ELSE [err |-> FALSE,
                   cpu |-> IF cpuPercent.num < 0 THEN Rat(0, 1) ELSE cpuPercent,
                   valid |-> TRUE]

\* getContainerCPU: [err, cpu, valid]
GetContainerCPU(m, resp) ==
    IF resp.kind = "transport_error" THEN [err |-> TRUE, cpu |-> Rat(0, 1), valid |-> FALSE]
    ELSE IF resp.kind = "status" /\ resp.status # 200
    THEN [err |-> TRUE, cpu |-> Rat(0, 1), valid |-> FALSE]
    ELSE IF resp.kind = "unparsable" THEN [err |-> TRUE, cpu |-> Rat(0, 1), valid |-> FALSE]
    ELSE LET f == resp.statsMap
             validStatsFound == \E k \in DOMAIN f : ValidStats(f[k])
             total == TotalVCPUs(f, DOMAIN f)
             \* (totalVCPUsUsed / taskCPULimit) * 100, the limit in quarters
             cpuPercent == Rat(total.num * 400, total.den * m.taskCPULimit)
         IN  IF ~validStatsFound
             THEN [err |-> FALSE, cpu |-> Rat(0, 1), valid |-> FALSE]
             ELSE [err |-> FALSE,
                   cpu |-> IF cpuPercent.num < 0 THEN Rat(0, 1) ELSE cpuPercent,
                   valid |-> TRUE]

\* mutant: the flag is raised only above the overload threshold
ShouldOpenAboveOverload(m, cpuUsage) ==
    ~m.isOpen /\ ~RatEq(cpuUsage, m.overloadThreshold) /\ RatGE(cpuUsage, m.overloadThreshold)

ShouldOpen(m, cpuUsage) == ~m.isOpen /\ RatGE(cpuUsage, m.overloadThreshold)

\* mutant: one threshold for both directions
ShouldCloseAtOverload(m, cpuUsage) == m.isOpen /\ RatLT(cpuUsage, m.overloadThreshold)

ShouldClose(m, cpuUsage) == m.isOpen /\ RatLT(cpuUsage, m.recoveryThreshold)

\* UpdateCPUCircuitBreakerMetrics
UpdateCPUCircuitBreakerMetrics(open, currentCPU) ==
    [state |-> IF open THEN 1 ELSE 0, usage |-> currentCPU]

\* mutant: the gate never sees the flag
IsOpenIgnored(m) == FALSE

\* IsOpen and GetCurrentCPU: reads under the read lock
IsOpen(m) == m.isOpen

GetCurrentCPU(m) == m.currentCPU

----------------------------------------------------------------------------
(* The request path of the /api group: TimeoutMiddleware, then              *)
(* CPUCircuitBreakerMiddleware, then the route's handler                    *)

requestTimeout == 100       \* milliseconds

MsStep == 50                \* granularity of the request clock
MaxMs == 150                \* the request clock stops here

\* api.Use(...): the middleware of the /api group in the order of registration
\* (PrometheusMiddleware, registered first, only measures the request)
ApiChain == <<"TimeoutMiddleware", "CPUCircuitBreakerMiddleware">>

\* what a handler answers, and the values a handler panics with
HandlerStatuses == {200, 500}
PanicValues == {"nil map write", "index out of range"}

\* gin's abortIndex: no pending handler starts once the context is aborted
NoRequest ==
    [main |-> "idle", via |-> "", go |-> "none", aborted |-> FALSE, resp |-> <<>>,
     dropped |-> 0, elapsed |-> 0, respondedAt |-> -1, thrown |-> "", raised |-> "",
     sawOpen |-> FALSE, path |-> <<>>]

\* the body written by CPUCircuitBreakerMiddleware when the monitor is open
GateRejection(cpu) ==
    [by |-> "gate", status |-> 503, code |-> "SERVICE_OVERLOADED", cpu |-> cpu]

\* the body written by TimeoutMiddleware when the timer fires
TimeoutRejection ==
    [by |-> "timeout", status |-> 504, code |-> "REQUEST_TIMEOUT", cpu |-> Rat(0, 1)]

\* the body written by a route's handler
HandlerResponse(status) ==
    [by |-> "handler", status |-> status, code |-> "", cpu |-> Rat(0, 1)]

\* gin's responseWriter: the status line is that of the first write, later
\* writes only append to the body
ClientStatus(resp) == IF resp = <<>> THEN 0 ELSE resp[1].status

----------------------------------------------------------------------------
(* Bulkhead *)

\* capacities of InternalBulkhead (50) and ExternalBulkhead (100), scaled
InternalCapacity == 1
ExternalCapacity == 2
MaxBulkheadRequests == 3

BulkheadClasses == {"internal", "external"}

Capacity(class) == IF class = "internal" THEN InternalCapacity ELSE ExternalCapacity

BulkheadRequests == 1 .. MaxBulkheadRequests

\* the X-User-Type header of a request ("" when it is missing)
UserTypes == {"staff", "public", "", "Staff"}

\* mutant: every caller that does not say "public" is staff
isInternalRequestUnlessPublic(userType) == userType # "public"

isInternalRequest(userType) == userType = "staff"

ClassOf(userType) == IF isInternalRequest(userType) THEN "internal" ELSE "external"

\* mutant: the send succeeds on a full channel
TryAcquireOnFull(held, capacity) == held <= capacity

\* select { case b.semaphore <- struct{}{}: ... default: ... }: the send on
\* the buffered channel is taken iff the buffer is not full
TryAcquire(held, capacity) == held < capacity

\* how next() can exit; "deadline": a TimeoutMiddleware further down the
\* chain returned on its timer while its goroutine still runs the handler
Exits == {"return", "error", "panic", "deadline"}

\* mutant: the slot is given back after next() instead of in a deferred call
ReleaseAfterNext(held, exit) == IF exit = "panic" THEN held ELSE held - 1

\* defer func() { <-b.semaphore }(): runs on every exit of Execute after the
\* slot was taken
Release(held, exit) == held - 1

\* mutant: a request that finds no slot still enters the channel's queue
RejectQueued(held) ==
    [held |-> held + 1, status |-> 503, code |-> "SERVICE_UNAVAILABLE", aborted |-> TRUE]

\* the default branch of the select: c.JSON(503, ...), c.Abort()
Reject(held) ==
    [held |-> held, status |-> 503, code |-> "SERVICE_UNAVAILABLE", aborted |-> TRUE]

NoBulkheadEvent == [kind |-> "none"]

NoBulkheadRequest == [class |-> "", at |-> "idle", exit |-> "", status |-> 0, code |-> ""]

----------------------------------------------------------------------------
(* GET /api/v1/patients/:patientId: how the error of the repository's Scan  *)
(* reaches the client                                                       *)

ErrNoRows == "sql: no rows in result set"

ErrPatientNotFound == "patient not found"

\* strings.Contains(err.Error(), "not found"), over the messages of the model
ContainsNotFound(err) == err \in {"patient not found"}

\* PatientRepository.GetByID: the error it returns for the error of Scan
RepositoryGetByID(err) == IF err = ErrNoRows THEN "patient not found" ELSE err

\* PatientService.GetPatientByID
ServiceGetPatientByID(err) ==
    IF err # "" /\ ContainsNotFound(err) THEN ErrPatientNotFound ELSE err

\* PatientHandler.GetPatientByID: the response written for the service's error
HandlerGetPatientByID(err) ==
    IF err = "" THEN [status |-> 200, code |-> ""]
    ELSE IF err = ErrPatientNotFound THEN [status |-> 404, code |-> "PATIENT_NOT_FOUND"]
    ELSE [status |-> 500, code |-> "INTERNAL_ERROR"]

NoAnswer == [status |-> 0, code |-> ""]

\* RootHandler.HealthCheck: the status and the "status" field of the body,
\* from the error of mysqlClient.PingContext
HealthResponse(err) ==
    IF err = "" THEN [status |-> 200, code |-> "healthy"]
    ELSE [status |-> 503, code |-> "degraded"]

\* what c.db.PingContext returns on an unreachable database
ErrBadConn == "driver: bad connection"

NoPing == [state |-> "none", generation |-> 0]

----------------------------------------------------------------------------
(* State *)

NoEvent == [kind |-> "none"]

NoTick == [kind |-> "none"]

\* what a step found on breaker b
Pre(b) == [state |-> cb[b].state, counts |-> cb[b].counts, openedAt |-> openedAt[b]]

Init ==
    /\ now = 0
    /\ cb = [b \in Breakers |-> NewCircuitBreaker(0)]
    /\ inflight = [b \in Breakers |-> EmptyBag]
    /\ rows = 0
    /\ gauge = [b \in Breakers |-> IF b = "MySQL" THEN CircuitBreakerStateToInt("closed") ELSE 0]
    /\ openedAt = [b \in Breakers |-> ZeroTime]
    /\ ev = NoEvent
    /\ traffic \in {{b} : b \in Breakers}
    /\ mon = DisabledMonitor
    /\ loop = "none"
    /\ cpuMetrics = [state |-> 0, usage |-> Rat(0, 1)]
    /\ tick = NoTick
    /\ startup = [env |-> NoMetadataEnvironment, logs |-> <<>>]
    /\ req = NoRequest
    /\ sem = [c \in BulkheadClasses |-> 0]
    /\ bh = [r \in BulkheadRequests |-> NoBulkheadRequest]
    /\ bev = NoBulkheadEvent
    /\ answer = NoAnswer
    /\ ping = NoPing
    /\ httpRequestsInFlight = 0

\* mutant: both clients are given one breaker
ExecuteSharedBreaker(b) ==
    LET r == BeforeRequest([c |-> cb[b], calls |-> <<>>], now)
    IN  /\ r.err = "" => /\ r.m.c.counts.Requests <= MaxCount
                         /\ BagCardinality(inflight[b]) < MaxInFlight
        /\ cb' = [x \in Breakers |-> r.m.c]
        /\ gauge' = [gauge EXCEPT ![b] = ApplyCallbacks(b, @, r.m.calls)]
        /\ openedAt' = [openedAt EXCEPT ![b] = OpenedBy(r.m.calls, @, now)]
        /\ inflight' = IF r.err = ""
                       THEN [inflight EXCEPT ![b] = @ (+) SetToBag({r.generation})]
                       ELSE inflight
        /\ ev' = [kind |-> IF r.err = "" THEN "invoked" ELSE "rejected",
                  b |-> b, via |-> "Execute", err |-> r.err, calls |-> r.m.calls,
                  pre |-> Pre(b)]

\* cb.Execute up to the call of the wrapped operation req()
Execute(b) ==
    LET r == BeforeRequest([c |-> cb[b], calls |-> <<>>], now)
    IN  /\ r.err = "" => /\ r.m.c.counts.Requests <= MaxCount
                         /\ BagCardinality(inflight[b]) < MaxInFlight
        /\ cb' = [cb EXCEPT ![b] = r.m.c]
        /\ gauge' = [gauge EXCEPT ![b] = ApplyCallbacks(b, @, r.m.calls)]
        /\ openedAt' = [openedAt EXCEPT ![b] = OpenedBy(r.m.calls, @, now)]
        /\ inflight' = IF r.err = ""
                       THEN [inflight EXCEPT ![b] = @ (+) SetToBag({r.generation})]
                       ELSE inflight
        /\ ev' = [kind |-> IF r.err = "" THEN "invoked" ELSE "rejected",
                  b |-> b, via |-> "Execute", err |-> r.err, calls |-> r.m.calls,
                  pre |-> Pre(b)]

\* QueryContext, ExecContext, PingContext of MySQLClient and every wrapped
\* operation of DynamoDBClient
Call(b, op) ==
    /\ op \in OpsOf(b)
    /\ ~(b = "MySQL" /\ op = "Scan")
    /\ Execute(b)
    /\ answer' = NoAnswer
    /\ UNCHANGED <<now, rows, traffic, ping>>

\* MySQLClient.QueryRowContext: the query is sent by c.db.QueryRowContext,
\* the CBRow only wraps the later Scan
QueryRowContext ==
    /\ "MySQL" \in traffic
    /\ rows < MaxRows
    /\ rows' = rows + 1
    /\ ev' = [kind |-> "invoked", b |-> "MySQL", via |-> "db", err |-> "", calls |-> <<>>,
              pre |-> Pre("MySQL")]
    /\ answer' = NoAnswer
    /\ UNCHANGED <<now, cb, inflight, gauge, openedAt, traffic, ping>>

\* CBRow.Scan
Scan ==
    /\ rows > 0
    /\ rows' = rows - 1
    /\ Execute("MySQL")
    /\ LET r == BeforeRequest([c |-> cb["MySQL"], calls |-> <<>>], now)
       IN  answer' = IF r.err = "" THEN NoAnswer
                     ELSE HandlerGetPatientByID(ServiceGetPatientByID(RepositoryGetByID(r.err)))
    /\ UNCHANGED <<now, traffic, ping>>

\* cb.Execute from the return of the wrapped operation: afterRequest with
\* the default IsSuccessful (err == nil); outcome is "ok" or the error
ExecuteReturn(b, g, outcome) ==
    LET m == AfterRequest([c |-> cb[b], calls |-> <<>>], g, outcome = "ok", now)
        stale == CurrentState([c |-> cb[b], calls |-> <<>>], now).c.generation # g
    IN  /\ BagIn(g, inflight[b])
        /\ cb' = [cb EXCEPT ![b] = m.c]
        /\ gauge' = [gauge EXCEPT ![b] = ApplyCallbacks(b, @, m.calls)]
        /\ openedAt' = [openedAt EXCEPT ![b] = OpenedBy(m.calls, @, now)]
        /\ inflight' = [inflight EXCEPT ![b] = @ (-) SetToBag({g})]
        /\ ev' = [kind |-> "returned", b |-> b, outcome |-> outcome, stale |-> stale,
                  calls |-> m.calls, pre |-> Pre(b)]

\* the wrapped operation of a business call returns
Return(b, g, outcome) ==
    /\ ExecuteReturn(b, g, outcome)
    /\ answer' = NoAnswer
    /\ UNCHANGED <<now, rows, traffic, ping>>

\* time passes
Tick ==
    /\ now + TimeStep <= MaxTime
    /\ now' = now + TimeStep
    /\ ev' = NoEvent
    /\ answer' = NoAnswer
    /\ UNCHANGED <<cb, inflight, rows, gauge, openedAt, traffic, ping>>

\* the dependency clients, in a process whose monitor found no metadata endpoint
Next ==
    \/ \E b \in traffic : \E op \in OpsOf(b) : Call(b, op) /\ UNCHANGED <<monVars, reqVars, bhVars>>
    \/ QueryRowContext /\ UNCHANGED <<monVars, reqVars, bhVars>>
    \/ Scan /\ UNCHANGED <<monVars, reqVars, bhVars>>
    \/ \E b \in traffic : \E g \in BagToSet(inflight[b]) : \E o \in Outcomes :
            Return(b, g, o) /\ UNCHANGED <<monVars, reqVars, bhVars>>
    \/ Tick /\ UNCHANGED <<monVars, reqVars, bhVars>>

Spec == Init /\ [][Next]_vars

----------------------------------------------------------------------------
(* Single-row lookups of rows that do not exist, on a healthy database *)

\* the Scan of a CBRow returns sql.ErrNoRows out of cb.Execute, and the
\* repository, the service and the handler turn it into the 404 answer
ScanNoRows(g) ==
    /\ ExecuteReturn("MySQL", g, ErrNoRows)
    /\ answer' = HandlerGetPatientByID(ServiceGetPatientByID(RepositoryGetByID(ErrNoRows)))
    /\ UNCHANGED <<now, rows, traffic, ping>>

InitNotFound == Init /\ traffic = {"MySQL"}

\* every call on the breaker is the Scan of a lookup, and every Scan finds no row
NextNotFound ==
    \/ QueryRowContext /\ UNCHANGED <<monVars, reqVars, bhVars>>
    \/ Scan /\ UNCHANGED <<monVars, reqVars, bhVars>>
    \/ \E g \in BagToSet(inflight["MySQL"]) :
            ScanNoRows(g) /\ UNCHANGED <<monVars, reqVars, bhVars>>
    \/ Tick /\ UNCHANGED <<monVars, reqVars, bhVars>>

SpecNotFound == InitNotFound /\ [][NextNotFound]_vars

----------------------------------------------------------------------------
(* GET /health next to business queries on the MySQL client *)

\* mutant: the health check pings the *sql.DB itself
HealthCheckDirectPing ==
    /\ "MySQL" \in traffic
    /\ ping.state = "none"
    /\ ping' = [state |-> "pinging", generation |-> cb["MySQL"].generation]
    /\ ev' = [kind |-> "invoked", b |-> "MySQL", via |-> "db", err |-> "", calls |-> <<>>,
              pre |-> Pre("MySQL")]
    /\ answer' = NoAnswer
    /\ UNCHANGED <<now, cb, inflight, rows, gauge, openedAt, traffic>>

\* RootHandler.HealthCheck up to the ping: h.mysqlClient.PingContext(ctx)
\* enters cb.Execute; a refusal is answered at once
HealthCheck ==
    LET r == BeforeRequest([c |-> cb["MySQL"], calls |-> <<>>], now)
    IN  /\ "MySQL" \in traffic
        /\ ping.state = "none"
        /\ Execute("MySQL")
        /\ ping' = IF r.err = "" THEN [state |-> "pinging", generation |-> r.generation]
                   ELSE ping
        /\ answer' = IF r.err = "" THEN NoAnswer ELSE HealthResponse(r.err)
        /\ UNCHANGED <<now, rows, traffic>>

\* c.db.PingContext returns, cb.Execute records the outcome and the
\* health check answers
HealthReturn(outcome) ==
    /\ ping.state = "pinging"
    /\ ExecuteReturn("MySQL", ping.generation, outcome)
    /\ ping' = NoPing
    /\ answer' = HealthResponse(IF outcome = "ok" THEN "" ELSE outcome)
    /\ UNCHANGED <<now, rows, traffic>>

InitHealth == Init /\ traffic = {"MySQL"}

\* a business call returns; the in-flight call of the ping is left to HealthReturn
NextHealth ==
    \/ \E op \in OpsOf("MySQL") : Call("MySQL", op) /\ UNCHANGED <<monVars, reqVars, bhVars>>
    \/ HealthCheck /\ UNCHANGED <<monVars, reqVars, bhVars>>
    \/ \E o \in {"ok", ErrBadConn} : HealthReturn(o) /\ UNCHANGED <<monVars, reqVars, bhVars>>
    \/ \E g \in BagToSet(inflight["MySQL"]) : \E o \in Outcomes :
            /\ (ping.state = "pinging" /\ ping.generation = g) => CopiesIn(g, inflight["MySQL"]) > 1
            /\ Return("MySQL", g, o)
            /\ UNCHANGED <<monVars, reqVars, bhVars>>
    \/ Tick /\ UNCHANGED <<monVars, reqVars, bhVars>>

SpecHealth == InitHealth /\ [][NextHealth]_vars

----------------------------------------------------------------------------
(* Both dependency clients in one process, one call at a time *)

InitBoth ==
    /\ now = 0
    /\ cb = [b \in Breakers |-> NewCircuitBreaker(0)]
    /\ inflight = [b \in Breakers |-> EmptyBag]
    /\ rows = 0
    /\ gauge = [b \in Breakers |-> IF b = "MySQL" THEN CircuitBreakerStateToInt("closed") ELSE 0]
    /\ openedAt = [b \in Breakers |-> ZeroTime]
    /\ ev = NoEvent
    /\ traffic = Breakers
    /\ mon = DisabledMonitor
    /\ loop = "none"
    /\ cpuMetrics = [state |-> 0, usage |-> Rat(0, 1)]
    /\ tick = NoTick
    /\ startup = [env |-> NoMetadataEnvironment, logs |-> <<>>]
    /\ req = NoRequest
    /\ sem = [c \in BulkheadClasses |-> 0]
    /\ bh = [r \in BulkheadRequests |-> NoBulkheadRequest]
    /\ bev = NoBulkheadEvent
    /\ answer = NoAnswer
    /\ ping = NoPing
    /\ httpRequestsInFlight = 0

NextBoth ==
    \/ \E b \in traffic : \E op \in OpsOf(b) :
            /\ \A x \in Breakers : inflight[x] = EmptyBag
            /\ cb[b].counts.Requests < MaxCountBoth
            /\ Call(b, op)
            /\ UNCHANGED <<monVars, reqVars, bhVars>>
    \/ \E b \in traffic : \E g \in BagToSet(inflight[b]) : \E o \in Outcomes :
            Return(b, g, o) /\ UNCHANGED <<monVars, reqVars, bhVars>>
    \/ Tick /\ UNCHANGED <<monVars, reqVars, bhVars>>

SpecBoth == InitBoth /\ [][NextBoth]_vars

----------------------------------------------------------------------------
(* The resource monitor *)

InitMonitor ==
    /\ now = 0
    /\ cb = [b \in Breakers |-> NewCircuitBreaker(0)]
    /\ inflight = [b \in Breakers |-> EmptyBag]
    /\ rows = 0
    /\ gauge = [b \in Breakers |-> IF b = "MySQL" THEN CircuitBreakerStateToInt("closed") ELSE 0]
    /\ openedAt = [b \in Breakers |-> ZeroTime]
    /\ ev = NoEvent
    /\ traffic = {}
    /\ \E env \in Environments :
          LET new == NewCPUCircuitBreaker(cpuOverloadThreshold, cpuRecoveryThreshold, env)
          IN  /\ mon = new.cb
              /\ loop = IF new.started THEN "running" ELSE "none"
              /\ startup = [env |-> env, logs |-> new.logs]
    /\ cpuMetrics = [state |-> 0, usage |-> Rat(0, 1)]
    /\ tick = NoTick
    /\ req = NoRequest
    /\ sem = [c \in BulkheadClasses |-> 0]
    /\ bh = [r \in BulkheadRequests |-> NoBulkheadRequest]
    /\ bev = NoBulkheadEvent
    /\ answer = NoAnswer
    /\ ping = NoPing
    /\ httpRequestsInFlight = 0

\* the containers of a stats response whose entry enters the sum
Sampled(resp) ==
    IF resp.kind # "stats" THEN {}
    ELSE {k \in DOMAIN resp.statsMap : ValidStats(resp.statsMap[k])}

\* one iteration of the loop of monitorCPU, on a tick of the ticker
MonitorCPU(resp) ==
    /\ loop = "running"
    /\ mon.metadataURI # ""
    /\ LET r == GetContainerCPU(mon, resp)
           shouldOpen == ShouldOpen(mon, r.cpu)
           shouldClose == ShouldClose(mon, r.cpu)
           open == IF shouldOpen THEN TRUE ELSE IF shouldClose THEN FALSE ELSE mon.isOpen
       IN  IF r.err
           THEN /\ tick' = [kind |-> "skipped", resp |-> resp.kind, prevOpen |-> mon.isOpen,
                            valid |-> FALSE, logged |-> "", valids |-> 0, resets |-> 0]
                /\ UNCHANGED <<mon, cpuMetrics>>
           ELSE /\ mon' = [mon EXCEPT !.currentCPU = r.cpu, !.isOpen = open]
                /\ cpuMetrics' = UpdateCPUCircuitBreakerMetrics(open, r.cpu)
                /\ tick' = [kind |-> "processed", resp |-> resp.kind, prevOpen |-> mon.isOpen,
                            valid |-> r.valid,
                            logged |-> IF shouldOpen THEN "Circuit OPENED"
                                       ELSE IF shouldClose THEN "Circuit CLOSED" ELSE "",
                            valids |-> Cardinality(Sampled(resp)),
                            resets |-> Cardinality({k \in Sampled(resp) :
                                          resp.statsMap[k].cpu < resp.statsMap[k].precpu})]
    /\ UNCHANGED <<loop, startup>>
    /\ UNCHANGED brkVars

NextMonitor == \E resp \in StatsResponses : MonitorCPU(resp) /\ UNCHANGED <<reqVars, bhVars>>

SpecMonitor == InitMonitor /\ [][NextMonitor]_vars


----------------------------------------------------------------------------
(* One request of the /api group.  The goroutine started by                *)
(* TimeoutMiddleware runs the rest of the chain (c.Next()); the request's  *)
(* own goroutine waits in the select.  A parked select is decided by the   *)
(* first channel operation or timer that becomes ready.                    *)

\* PrometheusMiddleware, before c.Next(): HttpRequestsInFlight.Inc()
HttpRequestsInFlightInc(n) == n + 1

\* PrometheusMiddleware, the statements after c.Next(), which run when
\* c.Next() returns: HttpRequestsInFlight.Dec()
HttpRequestsInFlightDec(n) == n - 1

\* a write on c.Writer: it reaches the response while the request is being
\* served; once TimeoutMiddleware has returned, the writer belongs to a
\* finished request and the unsynchronized write either still lands in the
\* response or is lost
Landings(r) == IF r.main = "select" THEN {TRUE} ELSE BOOLEAN

WriteResponse(r, w, landed) ==
    IF landed THEN [r EXCEPT !.resp = Append(@, w)]
    ELSE [r EXCEPT !.dropped = 1]

\* a request enters TimeoutMiddleware: the channels are made, the goroutine
\* is started and the select is entered
Arrive ==
    /\ httpRequestsInFlight < MaxLeaked
    /\ req.main \in {"idle", "returned", "panicked"}
    /\ req.go \in {"none", "done", "blocked"}
    /\ req' = [NoRequest EXCEPT !.main = "select", !.go = "start", !.path = <<ApiChain[1]>>]
    /\ httpRequestsInFlight' = HttpRequestsInFlightInc(httpRequestsInFlight)
    /\ UNCHANGED <<brkVars, monVars, bhVars>>

\* CPUCircuitBreakerMiddleware up to cb.IsOpen(), entered by the c.Next()
\* of the goroutine (which runs no handler once the context is aborted)
GateCheck ==
    /\ req.go = "start"
    /\ req' = IF req.aborted THEN [req EXCEPT !.go = "done"]
              ELSE IF IsOpen(mon)
              THEN [req EXCEPT !.go = "rejecting", !.sawOpen = TRUE,
                               !.path = Append(@, ApiChain[2])]
              ELSE [req EXCEPT !.go = "running",
                               !.path = Append(Append(@, ApiChain[2]), "handler")]
    /\ UNCHANGED httpRequestsInFlight
    /\ UNCHANGED <<brkVars, monVars, bhVars>>

\* CPUCircuitBreakerMiddleware, the rejection: c.JSON(503, ...) with
\* cb.GetCurrentCPU(), then c.Abort()
GateReject ==
    /\ req.go = "rejecting"
    /\ \E landed \in Landings(req) :
          req' = [WriteResponse(req, GateRejection(GetCurrentCPU(mon)), landed)
                      EXCEPT !.go = "rejected", !.aborted = TRUE]
    /\ UNCHANGED httpRequestsInFlight
    /\ UNCHANGED <<brkVars, monVars, bhVars>>

\* the route's handler writes its response
HandlerWrite(status) ==
    /\ req.go = "running"
    /\ \E landed \in Landings(req) :
          req' = [WriteResponse(req, HandlerResponse(status), landed) EXCEPT !.go = "written"]
    /\ UNCHANGED httpRequestsInFlight
    /\ UNCHANGED <<brkVars, monVars, bhVars>>

\* mutant: the deferred function recovers p and drops it
HandlerPanicSwallowed(p) ==
    /\ req.go \in {"running", "written"}
    /\ req' = [req EXCEPT !.go = "done", !.thrown = p]
    /\ UNCHANGED httpRequestsInFlight
    /\ UNCHANGED <<brkVars, monVars, bhVars>>

\* the chain panics: the deferred function recovers p and sends it on
\* panicChan; the send is received by the select, or blocks for ever when
\* TimeoutMiddleware has already returned
HandlerPanic(p) ==
    /\ req.go \in {"running", "written"}
    /\ req' = IF req.main = "select"
              THEN [req EXCEPT !.go = "done", !.thrown = p, !.main = "panicked",
                               !.via = "panic", !.raised = p, !.respondedAt = req.elapsed]
              ELSE [req EXCEPT !.go = "blocked", !.thrown = p]
    /\ UNCHANGED httpRequestsInFlight
    /\ UNCHANGED <<brkVars, monVars, bhVars>>

\* c.Next() returns in the goroutine and close(done)
Complete ==
    /\ req.go \in {"written", "rejected"}
    /\ req' = IF req.main = "select"
              THEN [req EXCEPT !.go = "done", !.main = "returned", !.via = "done",
                               !.respondedAt = req.elapsed]
              ELSE [req EXCEPT !.go = "done"]
    /\ httpRequestsInFlight' = IF req.main = "select"
                               THEN HttpRequestsInFlightDec(httpRequestsInFlight)
                               ELSE httpRequestsInFlight
    /\ UNCHANGED <<brkVars, monVars, bhVars>>

\* mutant: the timer is only looked at once the chain has returned
TimerFiresAfterChain ==
    /\ req.main = "select"
    /\ req.go = "done"
    /\ req.elapsed >= requestTimeout
    /\ req' = [req EXCEPT !.aborted = TRUE, !.resp = Append(@, TimeoutRejection),
                          !.main = "returned", !.via = "timeout",
                          !.respondedAt = req.elapsed]
    /\ httpRequestsInFlight' = IF req.main = "select"
                               THEN HttpRequestsInFlightDec(httpRequestsInFlight)
                               ELSE httpRequestsInFlight
    /\ UNCHANGED <<brkVars, monVars, bhVars>>

\* mutant: the timer is not discarded when the chain has completed
TimerFiresAfterDone ==
    /\ req.main = "select" \/ (req.main = "returned" /\ req.via = "done" /\ Len(req.resp) = 1)
    /\ req.elapsed >= requestTimeout
    /\ req' = [req EXCEPT !.aborted = TRUE, !.resp = Append(@, TimeoutRejection),
                          !.main = "returned",
                          !.via = IF req.via = "done" THEN "done" ELSE "timeout",
                          !.respondedAt = IF req.via = "done" THEN @ ELSE req.elapsed]
    /\ httpRequestsInFlight' = IF req.main = "select"
                               THEN HttpRequestsInFlightDec(httpRequestsInFlight)
                               ELSE httpRequestsInFlight
    /\ UNCHANGED <<brkVars, monVars, bhVars>>

\* case <-time.After(timeout): c.Abort(), c.JSON(504, ...), return
TimerFires ==
    /\ req.main = "select"
    /\ req.elapsed >= requestTimeout
    /\ req' = [req EXCEPT !.aborted = TRUE, !.resp = Append(@, TimeoutRejection),
                          !.main = "returned", !.via = "timeout",
                          !.respondedAt = req.elapsed]
    /\ httpRequestsInFlight' = IF req.main = "select"
                               THEN HttpRequestsInFlightDec(httpRequestsInFlight)
                               ELSE httpRequestsInFlight
    /\ UNCHANGED <<brkVars, monVars, bhVars>>

\* the request clock; a due timer fires before the clock moves on
Elapse ==
    /\ req.main # "idle"
    /\ req.elapsed + MsStep <= MaxMs
    /\ ~(req.main = "select" /\ req.elapsed >= requestTimeout)
    /\ req' = [req EXCEPT !.elapsed = @ + MsStep]
    /\ UNCHANGED httpRequestsInFlight
    /\ UNCHANGED <<brkVars, monVars, bhVars>>

\* the stats responses the monitor sees while requests are served: a failed
\* lookup, and the api container at 80% and at 95% of one vCPU
AdmissionSamples ==
    {[kind |-> "transport_error"]}
    \cup {[kind |-> "stats",
           statsMap |-> [k \in {"api"} |->
                            [nil |-> "", read |-> 200, preread |-> 100, cpu |-> c, precpu |-> 0]]] :
              c \in {80, 95}}

NextAdmission ==
    \/ \E resp \in AdmissionSamples : MonitorCPU(resp) /\ UNCHANGED <<reqVars, bhVars>>
    \/ Arrive
    \/ GateCheck
    \/ GateReject
    \/ \E status \in HandlerStatuses : HandlerWrite(status)
    \/ \E p \in PanicValues : HandlerPanic(p)
    \/ Complete
    \/ TimerFires
    \/ Elapse

SpecAdmission == InitMonitor /\ [][NextAdmission]_vars

\* time passes and a due timer is delivered to the waiting select; nothing
\* is assumed about the handler
SpecAdmissionLive ==
    InitMonitor /\ [][NextAdmission]_vars /\ WF_vars(Elapse) /\ WF_vars(TimerFires)

----------------------------------------------------------------------------
(* The bulkheads under concurrent requests *)

\* mutant: both classes are served by one pool
BulkheadExecuteSharedPool(r, userType) ==
    LET class == ClassOf(userType)
        rej == Reject(sem[class])
    IN  /\ bh[r].at = "idle"
        /\ IF TryAcquire(sem[class], Capacity(class))
           THEN /\ sem' = [c \in BulkheadClasses |-> sem[class] + 1]
                /\ bh' = [bh EXCEPT ![r] = [NoBulkheadRequest EXCEPT !.class = class,
                                                                     !.at = "next"]]
                /\ bev' = [kind |-> "admitted", r |-> r, class |-> class, pre |-> sem[class],
                           userType |-> userType]
           ELSE /\ sem' = [sem EXCEPT ![class] = rej.held]
                /\ bh' = [bh EXCEPT ![r] = [NoBulkheadRequest EXCEPT
                                               !.class = class, !.at = "rejected",
                                               !.status = rej.status, !.code = rej.code]]
                /\ bev' = [kind |-> "rejected", r |-> r, class |-> class, pre |-> sem[class],
                           userType |-> userType]
        /\ UNCHANGED <<brkVars, monVars, reqVars>>

\* Bulkhead.Execute up to the call of next(), or all of it when no slot is free
BulkheadExecute(r, userType) ==
    LET class == ClassOf(userType)
        rej == Reject(sem[class])
    IN  /\ bh[r].at = "idle"
        /\ IF TryAcquire(sem[class], Capacity(class))
           THEN /\ sem' = [sem EXCEPT ![class] = @ + 1]
                /\ bh' = [bh EXCEPT ![r] = [NoBulkheadRequest EXCEPT !.class = class,
                                                                     !.at = "next"]]
                /\ bev' = [kind |-> "admitted", r |-> r, class |-> class, pre |-> sem[class],
                           userType |-> userType]
           ELSE /\ sem' = [sem EXCEPT ![class] = rej.held]
                /\ bh' = [bh EXCEPT ![r] = [NoBulkheadRequest EXCEPT
                                               !.class = class, !.at = "rejected",
                                               !.status = rej.status, !.code = rej.code]]
                /\ bev' = [kind |-> "rejected", r |-> r, class |-> class, pre |-> sem[class],
                           userType |-> userType]
        /\ UNCHANGED <<brkVars, monVars, reqVars>>

\* next() exits and the deferred release runs
BulkheadExit(r, exit) ==
    /\ bh[r].at = "next"
    /\ sem' = [sem EXCEPT ![bh[r].class] = Release(@, exit)]
    /\ bh' = [bh EXCEPT ![r].at = "exited", ![r].exit = exit]
    /\ bev' = [kind |-> "released", r |-> r, class |-> bh[r].class, pre |-> sem[bh[r].class]]
    /\ UNCHANGED <<brkVars, monVars, reqVars>>

\* the handler left running by the deadline comes to its end
AbandonedHandlerEnds(r) ==
    /\ bh[r].at = "exited"
    /\ bh[r].exit = "deadline"
    /\ bh' = [bh EXCEPT ![r].at = "ended"]
    /\ bev' = [kind |-> "ended", r |-> r, class |-> bh[r].class, pre |-> sem[bh[r].class]]
    /\ UNCHANGED <<sem, brkVars, monVars, reqVars>>

NextBulkhead ==
    \/ \E r \in BulkheadRequests : \E userType \in UserTypes : BulkheadExecute(r, userType)
    \/ \E r \in BulkheadRequests : \E exit \in Exits : BulkheadExit(r, exit)
    \/ \E r \in BulkheadRequests : AbandonedHandlerEnds(r)

SpecBulkhead == Init /\ [][NextBulkhead]_vars

----------------------------------------------------------------------------
(* Circuit breaker claims *)

\* the trip condition in the words of the settings: at least 3 requests and
\* a failure ratio of at least 0.6
AtThreshold(counts) ==
    counts.Requests >= 3 /\ 10 * counts.TotalFailures >= 6 * counts.Requests

\* C1: within one counting interval, a Closed breaker is Open right after
\* the completed call that brings the counts to requests >= 3 and
\* totalFailures/requests >= 0.6 (so no completed call leaves a Closed
\* breaker with counts at the threshold).
C1_OpensAtThreshold ==
    \A b \in Breakers :
        (ev.kind = "returned" /\ ev.b = b /\ ~ev.stale /\ ev.pre.state = StateClosed
            /\ cb[b].state = StateClosed)
        => ~AtThreshold(cb[b].counts)

\* the counts of one interval after the calls failure, failure, success and
\* the admission of a fourth call
CountsFFSThenFourth ==
    [Requests |-> 4, TotalSuccesses |-> 1, TotalFailures |-> 2,
     ConsecutiveSuccesses |-> 1, ConsecutiveFailures |-> 0]

\* C2: after failure, failure, success in one counting interval of a Closed
\* breaker the fourth call is not admitted to the dependency.
C2_FourthCallRejected ==
    \A b \in Breakers :
        ~(/\ ev.kind = "invoked" /\ ev.b = b /\ ev.via = "Execute"
          /\ cb[b].state = StateClosed
          /\ cb[b].counts = CountsFFSThenFourth
          /\ inflight[b] = SetToBag({cb[b].generation}))

\* C3: an Execute call that finds the breaker Open less than 30 s after it
\* entered Open returns the circuit-open error and does not invoke the
\* wrapped operation.
C3_OpenFailsFast ==
    \A b \in Breakers :
        (/\ ev.kind \in {"invoked", "rejected"} /\ ev.b = b /\ ev.via = "Execute"
         /\ ev.pre.state = StateOpen
         /\ now - ev.pre.openedAt < 30)
        => /\ ev.kind = "rejected"
           /\ ev.err = ErrOpenState
           /\ ev.calls = <<>>
           /\ cb[b].state = StateOpen

C3_Witness ==
    /\ ev.kind = "rejected" /\ ev.via = "Execute"
    /\ ev.pre.state = StateOpen
    /\ now - ev.pre.openedAt = 20

\* C4: the MySQL database is never contacted while the MySQL breaker is
\* Open (within 30 s of its opening).
C4_NoQueryWhileOpen ==
    ~(/\ ev.kind = "invoked" /\ ev.b = "MySQL"
      /\ ev.pre.state = StateOpen
      /\ now - ev.pre.openedAt < 30)

\* C5 as stated: the breaker leaves HalfOpen (to Closed or to Open) only
\* when exactly 3 probe calls have been let through.
C5_ExactlyMaxProbes ==
    \A b \in Breakers :
        (/\ ev.kind = "returned" /\ ev.b = b
         /\ ev.calls # <<>> /\ ev.calls[1].from = StateHalfOpen)
        => ev.pre.counts.Requests = 3

\* C5 amended: the breaker enters HalfOpen only when more than 30 s have
\* passed since it opened; in HalfOpen at most 3 calls are let through; it
\* closes only when exactly 3 were let through and all 3 succeeded, and it
\* re-opens on a failed probe after 1 to 3 were let through.
C5_ProbesBeforeDecision ==
    \A b \in Breakers :
        /\ (ev.kind # "none" /\ ev.b = b /\ ev.calls # <<>> /\ ev.calls[1].to = StateHalfOpen)
            => /\ ev.pre.state = StateOpen
               /\ now - ev.pre.openedAt > 30
        /\ cb[b].state = StateHalfOpen => cb[b].counts.Requests <= 3
        /\ (ev.kind = "returned" /\ ev.b = b /\ ev.calls # <<>>
                /\ ev.calls[1].from = StateHalfOpen)
            => \/ /\ ev.calls[1].to = StateClosed
                  /\ ev.outcome = "ok"
                  /\ ev.pre.counts.Requests = 3
                  /\ ev.pre.counts.TotalSuccesses = 2
                  /\ ev.pre.counts.TotalFailures = 0
               \/ /\ ev.calls[1].to = StateOpen
                  /\ ev.outcome = "err"
                  /\ ev.pre.counts.Requests \in 1..3

C5_Witness ==
    /\ ev.kind = "returned"
    /\ ev.calls = <<[from |-> StateHalfOpen, to |-> StateOpen]>>
    /\ ev.pre.counts.Requests = 1

\* C6: the third success of a HalfOpen probe batch closes the breaker, and
\* the counts are {0, 0} on entering Closed.
C6_ProbeSuccessCloses ==
    \A b \in Breakers :
        (/\ ev.kind = "returned" /\ ev.b = b /\ ~ev.stale
         /\ ev.pre.state = StateHalfOpen
         /\ ev.outcome = "ok"
         /\ ev.pre.counts.TotalSuccesses = 2)
        => /\ ev.calls = <<[from |-> StateHalfOpen, to |-> StateClosed]>>
           /\ cb[b].state = StateClosed
           /\ cb[b].counts.Requests = 0
           /\ cb[b].counts.TotalFailures = 0

C6_Witness ==
    /\ ev.kind = "returned" /\ ~ev.stale
    /\ ev.pre.state = StateHalfOpen
    /\ ev.pre.counts.TotalSuccesses = 2
    /\ ev.outcome = "ok"
    /\ cb[ev.b].state = StateClosed

----------------------------------------------------------------------------
(* Resource monitor claims *)

\* C8: a processed sample flips the flag false->true exactly when its
\* utilization is >= 95, flips it true->false exactly when its utilization
\* is < 85, and a sample in [85, 95) leaves the flag as it was.
C8_Hysteresis ==
    tick.kind = "processed" =>
        /\ (~tick.prevOpen /\ mon.isOpen) <=> (~tick.prevOpen /\ RatGE(mon.currentCPU, 95))
        /\ (tick.prevOpen /\ ~mon.isOpen) <=> (tick.prevOpen /\ RatLT(mon.currentCPU, 85))
        /\ (RatGE(mon.currentCPU, 85) /\ RatLT(mon.currentCPU, 95))
            => mon.isOpen = tick.prevOpen

C8_Witness ==
    /\ tick.kind = "processed" /\ tick.valid
    /\ tick.prevOpen /\ ~mon.isOpen
    /\ RatEq(mon.currentCPU, 80)

\* C9: a tick whose reading cannot be obtained (transport error, non-200
\* status, unparsable body) is skipped: the flag, the utilization and the
\* exported metrics keep their values and the loop goes on.
C9_FailedReadingSkipped ==
    [][(tick'.kind # "none" /\ tick'.resp \in {"transport_error", "status", "unparsable"})
        => /\ tick'.kind = "skipped"
           /\ mon' = mon
           /\ cpuMetrics' = cpuMetrics
           /\ loop' = "running"]_vars

C9_Witness ==
    /\ tick.kind = "skipped"
    /\ tick.resp = "status"
    /\ mon.isOpen
    /\ loop = "running"

\* C10: a tick whose stats response holds no usable reading never flips
\* the flag.
C10_NoUsableReadingKeepsFlag ==
    (tick.kind # "none" /\ tick.resp = "stats" /\ ~tick.valid)
        => mon.isOpen = tick.prevOpen

----------------------------------------------------------------------------
(* Resource monitor start-up and admission gate claims *)

\* limit discovery was attempted and failed, or there is no endpoint
DiscoveryFailed ==
    /\ startup.env.uri # ""
    /\ (startup.env.task.kind # "metadata" \/ startup.env.task.limit <= 0)

Degraded == startup.env.uri = "" \/ DiscoveryFailed

\* C11: when the metadata endpoint is not configured or limit discovery
\* fails in the constructor, a monitor is still returned, no sampling loop
\* runs, the flag is false in every later state and the gate rejects no
\* request.
C11_DegradedNeverOverloaded ==
    Degraded =>
        /\ loop = "none"
        /\ mon.metadataURI = ""
        /\ ~mon.isOpen
        /\ tick.kind = "none"
        /\ ~req.sawOpen
        /\ req.go \notin {"rejecting", "rejected"}
        /\ \A i \in 1 .. Len(req.resp) : req.resp[i].by # "gate"

\* a request served by its handler on a monitor whose discovery got a 500
C11_Witness ==
    /\ DiscoveryFailed
    /\ startup.env.task.kind = "status"
    /\ req.via = "done"
    /\ Len(req.resp) = 1
    /\ req.resp[1].by = "handler"

\* C12: when limit discovery fails at start-up and the monitor degrades,
\* exactly one log entry reporting that overload protection is unavailable
\* is emitted.
C12_UnavailableLoggedOnce ==
    DiscoveryFailed => Len(startup.logs) = 1

\* C13: the gate, for each request: when the flag is set at the check it
\* writes 503 SERVICE_OVERLOADED carrying the monitor's current utilization
\* and aborts, and no handler runs for that request; when the flag is clear
\* it writes nothing and the next handler runs.
C13_GateDecision ==
    [][ /\ (req.go = "start" /\ req'.go # "start" /\ ~req.aborted) =>
              /\ req'.resp = req.resp
              /\ req'.dropped = req.dropped
              /\ IF mon.isOpen THEN req'.go = "rejecting" ELSE req'.go = "running"
        /\ (req.go = "rejecting" /\ req'.go # "rejecting") =>
              /\ req'.go = "rejected"
              /\ req'.aborted
              /\ \/ req'.resp = Append(req.resp,
                                       [by |-> "gate", status |-> 503,
                                        code |-> "SERVICE_OVERLOADED",
                                        cpu |-> mon.currentCPU])
                 \/ (req.main # "select" /\ req'.dropped = 1 /\ req'.resp = req.resp)
        /\ (req.go = "rejected") =>
              (req'.go \in {"rejected", "done"}
                  \/ (req'.go = "start" /\ req'.resp = <<>>))
        /\ (req'.go \in {"running", "written"}) => ~req'.sawOpen
      ]_vars

\* an overloaded monitor at 95% and a request answered by the gate alone
C13_Witness ==
    /\ req.go = "rejected"
    /\ req.main = "select"
    /\ Len(req.resp) = 1
    /\ req.resp[1].code = "SERVICE_OVERLOADED"
    /\ req.resp[1].status = 503
    /\ req.resp[1].cpu.num = 95 * req.resp[1].cpu.den

----------------------------------------------------------------------------
(* Bulkhead claims *)

Held(class) == {r \in BulkheadRequests : bh[r].class = class /\ bh[r].at = "next"}

Turned(class) == {r \in BulkheadRequests : bh[r].class = class /\ bh[r].at = "rejected"}

Left(class) ==
    {r \in BulkheadRequests : bh[r].class = class /\ bh[r].at \in {"exited", "ended"}}

\* C14: an acquire attempt succeeds iff fewer than C slots are held at its
\* step (so the attempt made while C are held fails and an attempt made
\* after a release succeeds), and when more than C requests of a class have
\* arrived and none has exited, exactly C proceed and the others are
\* rejected (C = 2: two proceed, one is rejected).
C14_AcquireIffFree ==
    /\ bev.kind = "admitted" => bev.pre < Capacity(bev.class)
    /\ bev.kind = "rejected" => bev.pre = Capacity(bev.class)
    /\ \A class \in BulkheadClasses :
          LET arrived == Held(class) \cup Turned(class)
          IN  (Left(class) = {} /\ Cardinality(arrived) > Capacity(class)) =>
                  /\ Cardinality(Held(class)) = Capacity(class)
                  /\ Cardinality(Turned(class)) = Cardinality(arrived) - Capacity(class)

\* three public requests, none has exited: two hold a slot, one was rejected
C14_Witness ==
    /\ \A r \in BulkheadRequests : bh[r].class = "external"
    /\ Cardinality(Held("external")) = 2
    /\ Cardinality(Turned("external")) = 1
    /\ Left("external") = {}

\* after the holder of the only staff slot left, the next attempt got it
\* and the one after that was rejected
C14_WitnessAfterRelease ==
    /\ Cardinality(Left("internal")) = 1
    /\ Cardinality(Held("internal")) = 1
    /\ Cardinality(Turned("internal")) = 1
    /\ bev.kind = "rejected"

\* C15: the number of held slots of a bulkhead equals the number of
\* admitted requests whose next() has not exited and lies in 0..capacity;
\* every exit (return, error, panic) gives one slot back, so with no
\* request in flight all slots are free.
C15_SlotsMatchInFlight ==
    \A class \in BulkheadClasses :
        /\ sem[class] = Cardinality(Held(class))
        /\ sem[class] >= 0
        /\ sem[class] <= Capacity(class)
        /\ (bev.kind = "released" /\ bev.class = class) => sem[class] = bev.pre - 1

\* next() panicked in the last request in flight and every slot is free
C15_Witness ==
    /\ bev.kind = "released"
    /\ bh[bev.r].exit = "panic"
    /\ \A class \in BulkheadClasses : Held(class) = {} /\ sem[class] = 0

\* C16: a request that finds its bulkhead saturated is turned away in the
\* same step, without waiting: 503 SERVICE_UNAVAILABLE, the chain aborted
\* (next() is not invoked for it), and the number of held slots unchanged.
C16_SaturatedRejectedAtOnce ==
    [][\A r \in BulkheadRequests :
          /\ (bh[r].at = "idle" /\ bh'[r].at # "idle"
                  /\ sem[bh'[r].class] = Capacity(bh'[r].class)) =>
                /\ bh'[r].at = "rejected"
                /\ bh'[r].status = 503
                /\ bh'[r].code = "SERVICE_UNAVAILABLE"
                /\ sem' = sem
          /\ bh[r].at = "rejected" => bh'[r] = bh[r]
      ]_vars

\* a public request turned away while both public slots are held
C16_Witness ==
    /\ bev.kind = "rejected"
    /\ bev.class = "external"
    /\ sem["external"] = 2
    /\ bh[bev.r].code = "SERVICE_UNAVAILABLE"

----------------------------------------------------------------------------
(* Deadline enforcer claims *)

TimeoutWrites == {i \in 1 .. Len(req.resp) : req.resp[i].by = "timeout"}

\* C17: when the chain completes before the timer fires, the middleware
\* returns with the chain's own response and no REQUEST_TIMEOUT response is
\* written for that request, then or later.
C17_CompletedFirstNoTimeout ==
    req.via = "done" =>
        /\ req.main = "returned"
        /\ TimeoutWrites = {}
        /\ Len(req.resp) = 1
        /\ req.resp[1].by \in {"handler", "gate"}

\* the handler answered before the deadline, and the deadline has passed since
C17_Witness ==
    /\ req.via = "done"
    /\ req.respondedAt < requestTimeout
    /\ req.elapsed >= requestTimeout
    /\ req.resp = <<[by |-> "handler", status |-> 200, code |-> "", cpu |-> [num |-> 0, den |-> 1]]>>

\* C18: when the timer fires before the chain completes, the client
\* receives 504 REQUEST_TIMEOUT at the deadline and the middleware returns
\* without waiting for the handler.
C18_TimeoutAnswers504 ==
    req.via = "timeout" =>
        /\ req.main = "returned"
        /\ req.respondedAt >= requestTimeout
        /\ req.respondedAt < requestTimeout + MsStep
        /\ ClientStatus(req.resp) = 504
        /\ req.resp[1].code = "REQUEST_TIMEOUT"

\* C19: exactly one response is written per request in every interleaving
\* of the handler goroutine and the timer.
C19_ExactlyOneResponse ==
    /\ Len(req.resp) <= 1
    /\ req.main = "returned" => Len(req.resp) = 1

\* C20: a panic of the chain while the select is still waiting is recovered
\* in the goroutine and raised again, with the same value, by the
\* middleware on the request's own path.
C20_PanicReRaised ==
    [][ (req.main = "select" /\ req.thrown = "" /\ req'.thrown # "") =>
            /\ req'.main = "panicked"
            /\ req'.via = "panic"
            /\ req'.raised = req'.thrown
            /\ req'.raised \in PanicValues
      ]_vars

\* the handler panicked before the deadline and the middleware panicked with
\* the same value
C20_Witness ==
    /\ req.main = "panicked"
    /\ req.thrown = "index out of range"
    /\ req.raised = "index out of range"
    /\ req.elapsed < requestTimeout

----------------------------------------------------------------------------
(* Breaker claims: callbacks, counts, interval, independence, error mapping *)

\* C22: a dependency call refused because the breaker is Open reaches the
\* client as a structured unavailable error, never as 500 INTERNAL_ERROR.
C22_OpenIsNotInternalError ==
    (ev.kind = "rejected" /\ ev.err = "circuit breaker is open" /\ answer.status # 0) =>
        /\ answer.status # 500
        /\ answer.code # "INTERNAL_ERROR"

\* C24: the state-change callback is invoked once per transition of a
\* breaker, and the (from, to) pairs form one chain: from differs from to,
\* the first from of a step is the state the step found, each from is the
\* previous to, and the last to is the breaker's state.
C24_CallbackChain ==
    ev.kind # "none" =>
        LET calls == ev.calls
        IN  /\ \A i \in 1 .. Len(calls) : calls[i].from # calls[i].to
            /\ \A i \in 1 .. Len(calls) - 1 : calls[i].to = calls[i + 1].from
            /\ IF calls = <<>>
               THEN cb[ev.b].state = ev.pre.state
               ELSE /\ calls[1].from = ev.pre.state
                    /\ calls[Len(calls)].to = cb[ev.b].state

\* the call that finds the Open timeout expired reports open -> half-open, once
C24_Witness ==
    /\ ev.kind = "invoked"
    /\ ev.b = "MySQL"
    /\ ev.calls = <<[from |-> "open", to |-> "half-open"]>>
    /\ cb["MySQL"].state = "half-open"
    /\ BagCardinality(inflight["MySQL"]) >= 2

\* C25: in every reachable state of a breaker, 0 <= totalFailures <= requests.
C25_FailuresWithinRequests ==
    \A b \in Breakers :
        /\ cb[b].counts.TotalFailures >= 0
        /\ cb[b].counts.TotalFailures <= cb[b].counts.Requests
        /\ cb[b].counts.TotalSuccesses + cb[b].counts.TotalFailures <= cb[b].counts.Requests

\* a call admitted before the counts were cleared fails afterwards
C25_Witness ==
    /\ ev.kind = "returned"
    /\ ev.stale
    /\ ev.outcome = "err"
    /\ cb[ev.b].state = "closed"
    /\ cb[ev.b].counts.Requests = 0

C27_BreakersIndependent ==
    [][ev'.kind # "none" =>
          /\ \A x \in Breakers \ {ev'.b} :
                /\ cb'[x] = cb[x]
                /\ inflight'[x] = inflight[x]
                /\ gauge'[x] = gauge[x]
          /\ ev'.kind = "rejected" => cb'[ev'.b].state \in {"open", "half-open"}
      ]_vars

\* a DynamoDB call goes through while the MySQL breaker is Open
C27_Witness ==
    /\ ev.kind = "invoked"
    /\ ev.b = "DynamoDB"
    /\ cb["MySQL"].state = "open"
    /\ cb["DynamoDB"].state = "closed"

----------------------------------------------------------------------------
(* Request path claims *)

\* C21: every request under /api is answered, by the deadline at the
\* latest, even when its handler never returns.
C21_EventuallyAnswered ==
    (req.main = "select") ~>
        (/\ req.main \in {"returned", "panicked"}
         /\ req.respondedAt >= 0
         /\ req.respondedAt < requestTimeout + MsStep
         /\ req.main = "returned" => Len(req.resp) >= 1)

\* the deadline answered a request whose handler is still running
C21_Witness ==
    /\ req.main = "returned"
    /\ req.via = "timeout"
    /\ req.go = "running"
    /\ req.elapsed = MaxMs

\* C23: every request under /api passes Bulkhead admission, then the start
\* of the deadline timer, then the Admission Gate check, then the handler.
C23_GateOrder ==
    \A i \in 1 .. Len(req.path) :
        req.path[i] = <<"BulkheadMiddleware", "TimeoutMiddleware",
                        "CPUCircuitBreakerMiddleware", "handler">>[i]

----------------------------------------------------------------------------
(* Bulkhead claims: classes, isolation, ceiling *)

\* C28: a request is assigned to the internal bulkhead iff its X-User-Type
\* header equals "staff"; a missing header or any other value goes to the
\* external bulkhead; each request is assigned to exactly one class.
C28_StaffIffInternal ==
    bev.kind \in {"admitted", "rejected"} =>
        /\ bev.class = "internal" <=> bev.userType = "staff"
        /\ bev.class = "external" <=> bev.userType # "staff"
        /\ bh[bev.r].class = bev.class
        /\ Cardinality({c \in {"internal", "external"} : bev.class = c}) = 1

\* a header that differs from "staff" only by case goes to the external pool
C28_Witness ==
    /\ bev.kind = "admitted"
    /\ bev.userType = "Staff"
    /\ bev.class = "external"
    /\ sem["external"] = 1
    /\ sem["internal"] = 0

\* C29: a step of a request of one class leaves the held-slot count of the
\* other class unchanged, and a request is rejected only when its own
\* class is saturated.
C29_PoolsIsolated ==
    [][bev'.kind # "none" =>
          /\ \A c \in {"internal", "external"} \ {bev'.class} : sem'[c] = sem[c]
          /\ bev'.kind = "rejected" => sem[bev'.class] = Capacity(bev'.class)
          /\ (bev'.kind \in {"admitted", "rejected"} /\ sem[bev'.class] < Capacity(bev'.class)) =>
                bev'.kind = "admitted"
      ]_vars

\* a public request is admitted while the staff pool is saturated
C29_Witness ==
    /\ bev.kind = "admitted"
    /\ bev.class = "external"
    /\ sem["internal"] = 1
    /\ Turned("internal") # {}

Abandoned(class) ==
    {r \in BulkheadRequests : bh[r].class = class /\ bh[r].at = "exited"
                                /\ bh[r].exit = "deadline"}

\* C30: with the bulkhead wrapping the deadline enforcer, the number of
\* requests of a class whose handling logic is still executing, handlers
\* abandoned at their deadline included, never exceeds the class's capacity.
C30_CapacityBoundsRunningWork ==
    \A class \in BulkheadClasses :
        Cardinality(Held(class) \cup Abandoned(class)) <= Capacity(class)

----------------------------------------------------------------------------
(* Metrics, probes, the monitor's band and the health check *)

C32_ProbesCapped ==
    [][\A b \in Breakers :
          /\ cb'[b].state = "half-open" => cb'[b].counts.Requests <= 3
          /\ (ev'.kind = "rejected" /\ ev'.b = b) => inflight'[b] = inflight[b]
          /\ (/\ ev'.kind \in {"invoked", "rejected"} /\ ev'.via = "Execute" /\ ev'.b = b
              /\ cb[b].state = "half-open" /\ cb[b].counts.Requests = 3)
                => /\ ev'.kind = "rejected" /\ ev'.err = "too many requests"
                   /\ cb'[b].counts = cb[b].counts]_vars

C32_Witness ==
    /\ ev.kind = "rejected" /\ ev.err = "too many requests"
    /\ cb[ev.b].state = "half-open" /\ cb[ev.b].counts.Requests = 3
    /\ BagCardinality(inflight[ev.b]) = 3

\* C33: whenever the monitor's lock is free, a raised flag comes with a
\* stored utilization >= 85 and a lowered flag with a stored utilization < 95.
C33_FlagWithinBand ==
    /\ mon.isOpen => RatGE(mon.currentCPU, 85)
    /\ ~mon.isOpen => RatLT(mon.currentCPU, 95)

C33_Witness ==
    /\ tick.kind = "processed" /\ tick.valid
    /\ ~tick.prevOpen /\ mon.isOpen
    /\ RatEq(mon.currentCPU, 95)

\* C34: the utilization written in a SERVICE_OVERLOADED rejection is >= 85,
\* whatever the sampling loop does while the request is in the gate.
C34_ReportedWhileOverloaded ==
    \A i \in 1..Len(req.resp) :
        req.resp[i].code = "SERVICE_OVERLOADED" => RatGE(req.resp[i].cpu, 85)

\* C35: once the deadline has fired, the goroutine of the abandoned chain
\* ends when the chain ends, by return or by panic: it is never left blocked.
C35_AbandonedGoroutineEnds == req.go # "blocked"

\* C36: http_requests_in_flight is the number of requests inside
\* PrometheusMiddleware: 1 while the request is served, 0 once it has left,
\* by a normal return, a timeout response or a re-raised panic.
C36_GaugeCountsRequestsInside ==
    httpRequestsInFlight = IF req.main = "select" THEN 1 ELSE 0

\* C37: lookups of rows that do not exist are not recorded as failures of the
\* MySQL breaker, and a run made only of such lookups leaves it Closed.
C37_NotFoundNotCounted ==
    /\ cb["MySQL"].counts.TotalFailures = 0
    /\ cb["MySQL"].state = "closed"

\* C38: a sample whose entries all carry a cumulative usage lower than the
\* previous one yields utilization 0 and does not raise the flag.
C38_CounterResetClampedToZero ==
    (tick.kind = "processed" /\ tick.resets > 0 /\ tick.resets = tick.valids) =>
        /\ RatEq(mon.currentCPU, 0)
        /\ ~(~tick.prevOpen /\ mon.isOpen)

\* C39: the health check's ping goes through the MySQL breaker: a breaker
\* that is Open admits no ping, and a refused health check answers 503
\* "degraded" without a ping being sent; an admitted ping
\* is a request of the breaker's counts, and its outcome is recorded there, a
\* failure counting toward (or causing) the opening of the breaker.
C39_HealthThroughBreaker ==
    [][/\ (ping.state = "none" /\ ping'.state = "pinging") =>
            /\ cb'["MySQL"].state # "open"
            /\ cb'["MySQL"].generation = ping'.generation
            /\ cb'["MySQL"].counts.Requests >= 1
            /\ inflight'["MySQL"] = inflight["MySQL"] (+) SetToBag({ping'.generation})
       /\ (answer'.code \in {"healthy", "degraded"} /\ ev'.kind = "rejected") =>
            /\ answer' = [status |-> 503, code |-> "degraded"]
            /\ \/ cb'["MySQL"].state = "open"
               \/ cb'["MySQL"].state = "half-open" /\ cb'["MySQL"].counts.Requests = 3
            /\ inflight' = inflight /\ ping' = ping
       /\ (ping.state = "pinging" /\ ping'.state = "none") =>
            /\ ev'.kind = "returned"
            /\ answer' = IF ev'.outcome = "ok" THEN [status |-> 200, code |-> "healthy"]
                         ELSE [status |-> 503, code |-> "degraded"]
            /\ (~ev'.stale /\ ev'.outcome # "ok") =>
                  \/ cb'["MySQL"].counts.TotalFailures = cb["MySQL"].counts.TotalFailures + 1
                  \/ cb'["MySQL"].state = "open"
            /\ (~ev'.stale /\ ev'.outcome = "ok") =>
                  \/ cb'["MySQL"].counts.TotalSuccesses = cb["MySQL"].counts.TotalSuccesses + 1
                  \/ (cb["MySQL"].state = "half-open" /\ cb'["MySQL"].state = "closed")]_vars

C39_Witness ==
    /\ ev.kind = "rejected" /\ ev.err = "circuit breaker is open"
    /\ answer = [status |-> 503, code |-> "degraded"]
    /\ ping.state = "none"

\* a failed ping of the health check is the failure that opens the breaker
C39_WitnessFailedPing ==
    /\ ev.kind = "returned" /\ ev.outcome # "ok"
    /\ answer = [status |-> 503, code |-> "degraded"]
    /\ ev.calls = <<[from |-> "closed", to |-> "open"]>>

====
